---------------------------- MODULE Spec2Model ----------------------------
(***************************************************************************)
(* A model of the FITS reader: the keyword-value grammar and the header    *)
(* reader of header.py, and the layout rules, the data-skip arithmetic,    *)
(* the memory-mapped data unit and the unit walker of fits.py.             *)
(*                                                                         *)
(* Text is modelled as sequences of one-character strings; keywords and    *)
(* dictionary keys are strings.  A parsed value is a record with a type    *)
(* tag t and one payload field per Python type (s, n, b), so that values   *)
(* of different Python types can be compared.                              *)
(***************************************************************************)
EXTENDS Integers, Sequences, FiniteSets, TLC

VARIABLES
    \* ---- parse_keyword_value, called on its own
    expr,        \* the value clause handed to parse_keyword_value
    kvout,       \* what the call produced: [exc, value, comment]
    \* ---- bintable_dtype
    theader,     \* the BINTABLE header handed to bintable_dtype
    tdtype,      \* what the call produced so far: [exc, n, dtype]
    \* ---- the file and the read cursor
    nblocks,     \* number of complete 2880-byte blocks of the file
    tail,        \* bytes of the partial block after the complete ones (0: none)
    file,        \* block index -> content, known from its first read on
    pos,         \* fp's position, in bytes
    \* ---- read_header
    rhs,         \* the call: "idle", "reading", "returned" or "raised"
    primary,     \* the primary argument of the call in progress
    keywords,    \* the dictionary being built
    nrecords,    \* records processed so far
    rherr,       \* the exception the last read_header call raised, or "none"
    cause,       \* which statement of read_header raised it
    hstart,      \* fp's position when the last read_header call began
    \* ---- load
    pc,          \* load's position
    header,      \* load's header variable
    hdus,        \* load's list of units
    exc,         \* the exception that left load, or "none"
    skipped,     \* what the last skip_data call did
    \* ---- hdu's memory mapping
    mm           \* the mapping and the array built on it

varsKV == <<expr, kvout>>
varsT == <<theader, tdtype>>
varsFile == <<nblocks, tail, file, pos>>
varsRH == <<rhs, primary, keywords, nrecords, rherr, cause, hstart>>
varsLoad == <<pc, header, hdus, exc, skipped>>
vars == <<varsKV, varsT, varsFile, varsRH, varsLoad, mm>>

-----------------------------------------------------------------------------
(* Bounds of the model. *)

\* longest value clause handed to parse_keyword_value on its own
MaxLen == 5

\* bintable_dtype: most fields of a table, largest repeat count of a TFORM
MaxFields == 2
MaxCount == 9

\* read_header on its own: most complete blocks of the file, most records of
\* a header between its first record and its last one, blank padding aside
MaxHeaderBlocks == 2
MaxRecs == 3

\* load: most complete blocks of the file, most units load may gather
MaxBlocks == 3
MaxUnits == 3

\* hdu: most references to the returned array that are alive at once
MaxRefs == 2

-----------------------------------------------------------------------------
(* Values *)

PyNone == [t |-> "none", s |-> <<>>, n |-> 0, b |-> FALSE]
PyStr(s) == [t |-> "str", s |-> s, n |-> 0, b |-> FALSE]
PyBool(b) == [t |-> "bool", s |-> <<>>, n |-> 0, b |-> b]
PyInt(n) == [t |-> "int", s |-> <<>>, n |-> n, b |-> FALSE]
\* a float keeps its literal (D already replaced by E); a complex keeps both
PyFloat(s) == [t |-> "float", s |-> s, n |-> 0, b |-> FALSE]
PyComplex(re, im) == [t |-> "complex", s |-> re \o <<",">> \o im, n |-> 0, b |-> FALSE]

-----------------------------------------------------------------------------
(* Text helpers *)

Digits == {"0", "1", "2", "3", "4", "5", "6", "7", "8", "9"}

DigitVal(c) ==
    CASE c = "0" -> 0 [] c = "1" -> 1 [] c = "2" -> 2 [] c = "3" -> 3
      [] c = "4" -> 4 [] c = "5" -> 5 [] c = "6" -> 6 [] c = "7" -> 7
      [] c = "8" -> 8 [] c = "9" -> 9

Max(S) == CHOOSE m \in S : \A o \in S : o <= m
Min(S) == CHOOSE m \in S : \A o \in S : m <= o

\* F applied to the value of v, which is computed once
Bind(v, F(_)) == CHOOSE r \in {F(x) : x \in {v}} : TRUE

\* every sequence over S of length at most n
SeqsUpTo(S, n) == UNION {[1..k -> S] : k \in 0..n}

\* the text from position i (1-based) to the end
From(e, i) == SubSeq(e, i, Len(e))

\* first position >= i that holds no space, Len(e)+1 when there is none
SkipSpaces(e, i) ==
    LET P == {j \in i..Len(e) : e[j] # " "}
    IN  IF P = {} THEN Len(e) + 1 ELSE Min(P)

\* str.rstrip(' ')
RStrip(e) ==
    LET P == {j \in 1..Len(e) : e[j] # " "}
    IN  IF P = {} THEN <<>> ELSE SubSeq(e, 1, Max(P))

\* str.strip() on printable text
Strip(e) == RStrip(From(e, SkipSpaces(e, 1)))

\* str.replace("''", "'"): non-overlapping, left to right
RECURSIVE ReplaceQuotes(_)
ReplaceQuotes(e) ==
    IF Len(e) = 0 THEN <<>>
    ELSE IF Len(e) >= 2 /\ e[1] = "'" /\ e[2] = "'"
         THEN <<"'">> \o ReplaceQuotes(From(e, 3))
         ELSE <<e[1]>> \o ReplaceQuotes(From(e, 2))

\* int() of a run of digits
RECURSIVE DigitsToNat(_)
DigitsToNat(e) ==
    IF Len(e) = 0 THEN 0
    ELSE 10 * DigitsToNat(SubSeq(e, 1, Len(e) - 1)) + DigitVal(e[Len(e)])

AllDigits(e) == Len(e) >= 1 /\ \A j \in 1..Len(e) : e[j] \in Digits

HasSign(e) == Len(e) >= 1 /\ e[1] \in {"-", "+"}
Unsigned(e) == IF HasSign(e) THEN From(e, 2) ELSE e

-----------------------------------------------------------------------------
(* header.py: the KeywordValue grammar and parse_keyword_value.            *)
(* keyword_value_regex.fullmatch backtracks in priority order; each        *)
(* operator below yields the first match of that order.                    *)

\* BOOL = '[TF]'
IsBOOL(tok) == tok \in {<<"T">>, <<"F">>}

\* INT = '[-+]? [0-9]+'
IsINT(tok) == AllDigits(Unsigned(tok))

\* FLOAT: [-+]? (?: [0-9]+ \.? | [0-9]* \. [0-9]+ ) (?: [ED] [-+]? [0-9]+ )?
IsMantissa(m) ==
    /\ \A j \in 1..Len(m) : m[j] \in Digits \cup {"."}
    /\ Cardinality({j \in 1..Len(m) : m[j] = "."}) <= 1
    /\ \E j \in 1..Len(m) : m[j] \in Digits

IsFLOAT(tok) ==
    LET u == Unsigned(tok)
        E == {j \in 1..Len(u) : u[j] \in {"E", "D"}}
    IN  IF E = {} THEN IsMantissa(u)
        ELSE /\ IsMantissa(SubSeq(u, 1, Min(E) - 1))
             /\ AllDigits(Unsigned(From(u, Min(E) + 1)))

\* f.replace('D', 'E')
DtoE(tok) == [j \in 1..Len(tok) |-> IF tok[j] = "D" THEN "E" ELSE tok[j]]

\* the rest of the clause after the value: \ * COMMENT?  with
\* COMMENT = '(?: / (?P<comment> [ -~]* ) )'
TailOK(e, j) ==
    LET k == SkipSpaces(e, j)
    IN  k > Len(e) \/ e[k] = "/"

\* m.group('comment'), stripped; PyNone when the clause has no comment
CommentAt(e, j) ==
    LET k == SkipSpaces(e, j)
    IN  IF k > Len(e) THEN PyNone ELSE PyStr(Strip(From(e, k + 1)))

\* STR = '(?: \' [ -~]* \' )+' starting at the quote at position i: [ -~]
\* takes quotes too, so the group may end at any later quote; the greedy
\* match keeps the last one after which the rest of the clause still matches.
StrEnds(e, i) == {q \in (i + 1)..Len(e) : e[q] = "'" /\ TailOK(e, q + 1)}

\* COMPLEX = \( \ * FLOAT \ * , \ * FLOAT \ * \)
ComplexClose(e, i) == {q \in (i + 1)..Len(e) : e[q] = ")"}
ComplexParts(e, i) ==
    LET q == Min(ComplexClose(e, i))
        inner == SubSeq(e, i + 1, q - 1)
        C == {j \in 1..Len(inner) : inner[j] = ","}
    IN  IF C = {} THEN <<>>
        ELSE <<Strip(SubSeq(inner, 1, Min(C) - 1)), Strip(From(inner, Min(C) + 1))>>

KVError == [exc |-> "ValueError", value |-> PyNone, comment |-> PyNone]
KVResult(v, c) == [exc |-> "none", value |-> v, comment |-> c]

parse_keyword_value(e) ==
    LET i == SkipSpaces(e, 1)
        \* the run of characters up to the next space or slash
        stop == {j \in i..Len(e) : e[j] \in {" ", "/"}}
        j == IF stop = {} THEN Len(e) + 1 ELSE Min(stop)
        tok == SubSeq(e, i, j - 1)
    IN  IF i > Len(e) \/ e[i] = "/"
        THEN KVResult(PyNone, CommentAt(e, i))
        ELSE IF e[i] = "'"
        THEN IF StrEnds(e, i) = {} THEN KVError
             ELSE LET q == Max(StrEnds(e, i))
                  IN  KVResult(PyStr(ReplaceQuotes(SubSeq(e, i + 1, q - 1))),
                               CommentAt(e, q + 1))
        ELSE IF e[i] = "("
        THEN IF ComplexClose(e, i) = {} THEN KVError
             ELSE LET q == Min(ComplexClose(e, i))
                      p == ComplexParts(e, i)
                  IN  IF /\ Len(p) = 2 /\ IsFLOAT(p[1]) /\ IsFLOAT(p[2])
                         /\ TailOK(e, q + 1)
                      THEN KVResult(PyComplex(p[1], p[2]), CommentAt(e, q + 1))
                      ELSE KVError
        ELSE IF ~TailOK(e, j) THEN KVError
        ELSE IF IsBOOL(tok) THEN KVResult(PyBool(tok = <<"T">>), CommentAt(e, j))
        ELSE IF IsINT(tok)
        THEN KVResult(PyInt((IF tok[1] = "-" THEN -1 ELSE 1)
                          * DigitsToNat(Unsigned(tok))), CommentAt(e, j))
        ELSE IF IsFLOAT(tok) THEN KVResult(PyFloat(DtoE(tok)), CommentAt(e, j))
        ELSE KVError

-----------------------------------------------------------------------------
(* Dictionaries: a header is a function from key strings to values.        *)

EmptyDict == <<>>
Has(d, k) == k \in DOMAIN d
Put(d, k, v) == (k :> v) @@ d

\* str(n) for n >= 0, as text
RECURSIVE NatToDigits(_)
NatToDigits(n) ==
    LET d == <<"0", "1", "2", "3", "4", "5", "6", "7", "8", "9">>[(n % 10) + 1]
    IN  IF n < 10 THEN <<d>> ELSE Append(NatToDigits(n \div 10), d)

IntText(n) == IF n < 0 THEN <<"-">> \o NatToDigits(-n) ELSE NatToDigits(n)

-----------------------------------------------------------------------------
(* fits.py: bintable_dtype.  A format is kept as the text the code builds  *)
(* (without the leading '>').                                              *)

\* the keys of TFORM_DTYPE_MAP
TformCodes == {"L", "X", "B", "I", "J", "K", "A", "E", "D", "C", "M"}

TFORM_DTYPE_MAP(c) ==
    CASE c = "L" -> <<"?">>
      [] c = "X" -> <<"u", "1">>
      [] c = "B" -> <<"u", "1">>
      [] c = "I" -> <<"i", "2">>
      [] c = "J" -> <<"i", "4">>
      [] c = "K" -> <<"i", "8">>
      [] c = "A" -> <<"U">>
      [] c = "E" -> <<"f", "4">>
      [] c = "D" -> <<"f", "8">>
      [] c = "C" -> <<"c", "8">>
      [] c = "M" -> <<"c", "1", "6">>

\* tform_regex.fullmatch(tform): the repeat count is the whole leading run of
\* digits, the type code is the character after it, the rest is ignored
LeadingDigits(t) ==
    LET P == {j \in 1..Len(t) : t[j] \notin Digits}
    IN  IF P = {} THEN Len(t) ELSE Min(P) - 1

TformMatches(t) ==
    LeadingDigits(t) < Len(t) /\ t[LeadingDigits(t) + 1] \in TformCodes
TformCount(t) == SubSeq(t, 1, LeadingDigits(t))
TformValue(t) == t[LeadingDigits(t) + 1]

\* the round-up of the bit count in the branch for 'X'
BitArrayCount(c) == IF c % 8 # 0 THEN c + 1 ELSE c

\* the format built for one matched TFORM
FieldFormat(count, value) ==
    IF count = <<>> THEN TFORM_DTYPE_MAP(value)
    ELSE IF value = "X"
         THEN NatToDigits(BitArrayCount(DigitsToNat(count))) \o TFORM_DTYPE_MAP(value)
    ELSE IF value = "A" THEN TFORM_DTYPE_MAP(value) \o count
    ELSE count \o TFORM_DTYPE_MAP(value)

FieldKey(prefix, n) == prefix \o ToString(n)

\* one iteration of the loop over range(tfields), for index n (0-based)
bintable_field(h, n) ==
    LET ttype == IF Has(h, FieldKey("TTYPE", n + 1)) THEN h[FieldKey("TTYPE", n + 1)].s
                 ELSE <<"f">> \o NatToDigits(n)
    IN  IF ~Has(h, FieldKey("TFORM", n + 1)) THEN [exc |-> "KeyError", field |-> <<>>]
        ELSE LET tform == h[FieldKey("TFORM", n + 1)].s
             IN  IF ~TformMatches(tform) THEN [exc |-> "ValueError", field |-> <<>>]
                 ELSE [exc |-> "none",
                       field |-> <<[name |-> RStrip(ttype),
                                    fmt |-> FieldFormat(TformCount(tform),
                                                        TformValue(tform))]>>]

\* the loop from index n on, with the fields gathered so far
RECURSIVE bintable_loop(_, _, _)
bintable_loop(h, n, dtype) ==
    IF n >= h["TFIELDS"].n THEN [exc |-> "none", n |-> n, dtype |-> dtype]
    ELSE LET f == bintable_field(h, n)
         IN  IF f.exc # "none" THEN [exc |-> f.exc, n |-> n, dtype |-> dtype]
             ELSE bintable_loop(h, n + 1, dtype \o f.field)

bintable_dtype(h) ==
    IF ~Has(h, "TFIELDS") THEN [exc |-> "KeyError", n |-> 0, dtype |-> <<>>]
    ELSE bintable_loop(h, 0, <<>>)

\* numpy's size in bytes of a format: repeat count, then the element; 'U<n>'
\* is n 4-byte code points
ElementSize(b) ==
    CASE b = <<"?">> -> 1
      [] b = <<"u", "1">> -> 1
      [] b = <<"i", "2">> -> 2
      [] b = <<"i", "4">> -> 4
      [] b = <<"i", "8">> -> 8
      [] b = <<"f", "4">> -> 4
      [] b = <<"f", "8">> -> 8
      [] b = <<"c", "8">> -> 8
      [] b = <<"c", "1", "6">> -> 16

FormatSize(fmt) ==
    LET d == LeadingDigits(fmt)
        b == From(fmt, d + 1)
    IN  IF b[1] = "U" THEN 4 * DigitsToNat(From(b, 2))
        ELSE (IF d = 0 THEN 1 ELSE DigitsToNat(SubSeq(fmt, 1, d))) * ElementSize(b)

RECURSIVE RowSize(_)
RowSize(dtype) ==
    IF dtype = <<>> THEN 0 ELSE FormatSize(dtype[1].fmt) + RowSize(Tail(dtype))

-----------------------------------------------------------------------------
(* bintable_dtype called on its own, one loop iteration per step.          *)

TformTexts ==
    {c \o <<v>> \o j :
        c \in {<<>>} \cup {NatToDigits(k) : k \in 0..MaxCount},
        v \in {"X", "A", "J", "Z"},
        j \in {<<>>, <<"9">>}}

\* a header of n fields with formats f, and names for the fields in tt
TableHeader(n, f, tt) ==
    [k \in {"TFIELDS"} \cup {FieldKey("TFORM", i) : i \in 1..n}
                        \cup {FieldKey("TTYPE", i) : i \in tt} |->
        IF k = "TFIELDS" THEN PyInt(n)
        ELSE IF \E i \in tt : k = FieldKey("TTYPE", i) THEN PyStr(<<"N", " ">>)
        ELSE PyStr(f[CHOOSE i \in 1..n : k = FieldKey("TFORM", i)])]

TUncalled == [exc |-> "uncalled", n |-> 0, dtype |-> <<>>]

\* def bintable_dtype ... tfields = header['TFIELDS']
CallBintableDtype ==
    /\ tdtype.exc = "uncalled"
    /\ tdtype' = [exc |-> "running", n |-> 0, dtype |-> <<>>]
    /\ UNCHANGED <<theader, varsKV, varsFile, varsRH, varsLoad, mm>>

\* one iteration of the for loop
BintableField ==
    /\ tdtype.exc = "running"
    /\ tdtype.n < theader["TFIELDS"].n
    /\ LET f == bintable_field(theader, tdtype.n)
       IN  tdtype' = IF f.exc # "none" THEN [tdtype EXCEPT !.exc = f.exc]
                     ELSE [tdtype EXCEPT !.n = @ + 1, !.dtype = @ \o f.field]
    /\ UNCHANGED <<theader, varsKV, varsFile, varsRH, varsLoad, mm>>

\* return dtype
BintableReturn ==
    /\ tdtype.exc = "running"
    /\ tdtype.n >= theader["TFIELDS"].n
    /\ tdtype' = [tdtype EXCEPT !.exc = "none"]
    /\ UNCHANGED <<theader, varsKV, varsFile, varsRH, varsLoad, mm>>

-----------------------------------------------------------------------------
(* header.py: records and parse_keyword.  A record is its keyword field    *)
(* (bytes 0-7 without the trailing spaces) and its text (bytes 8-79        *)
(* without the trailing spaces).                                           *)

BlockSize == 2880
RecordSize == 80
RecordsPerBlock == BlockSize \div RecordSize

Rec(kw, text) == [kw |-> kw, text |-> text]
Blank == Rec("", <<>>)

\* record[8:10] == '= ' (the text is followed by spaces up to byte 79)
HasMarker(text) ==
    Len(text) >= 1 /\ text[1] = "=" /\ (Len(text) = 1 \/ text[2] = " ")

parse_keyword(r) ==
    IF r.kw = "END"
    THEN [exc |-> "none", end |-> TRUE, keyword |-> "", value |-> PyNone]
    ELSE IF \/ r.kw = "CONTINUE"
            \/ r.kw \notin {"COMMENT", "HISTORY", ""} /\ HasMarker(r.text)
    THEN Bind(parse_keyword_value(From(r.text, 3)),
              LAMBDA kv : [exc |-> kv.exc, end |-> FALSE,
                           keyword |-> r.kw, value |-> kv.value])
    ELSE [exc |-> "none", end |-> FALSE, keyword |-> r.kw,
          value |-> PyStr(RStrip(r.text))]

-----------------------------------------------------------------------------
(* header.py: read_block and read_header.  A block that was read in full   *)
(* is [bin, recs]: bin says that some byte is outside 32..126, recs are    *)
(* its first records, the others being blank.                              *)

Unread == [known |-> FALSE, bin |-> FALSE, recs |-> <<>>]
TextBlock(recs) == [known |-> TRUE, bin |-> FALSE, recs |-> recs]
BinaryBlock == [known |-> TRUE, bin |-> TRUE, recs |-> <<>>]

RecordAt(blk, i) == IF i <= Len(blk.recs) THEN blk.recs[i] ELSE Blank

FileSize == nblocks * BlockSize + tail

\* fp.readinto(buffer) at position p: the number of bytes read
ReadSize(p) ==
    IF p < 0 \/ p >= FileSize THEN 0
    ELSE IF FileSize - p >= BlockSize THEN BlockSize ELSE FileSize - p

\* the name under which a value is stored: the while loop tries keyword,
\* keyword.1, keyword.2, ... and keeps the first name that is not a key
DupKey(keyword, ndup) ==
    IF ndup = 0 THEN keyword ELSE keyword \o "." \o ToString(ndup)

\* a variant that stores every value under the keyword itself
DupName_Overwrite(kws, keyword) == keyword

DupName(kws, keyword) ==
    LET dom == DOMAIN kws
    IN  DupKey(keyword,
               Min({n \in 0..Cardinality(dom) : DupKey(keyword, n) \notin dom}))

\* the check of the first record
FirstRecordOK(prim, p) ==
    IF prim THEN ~p.end /\ p.keyword = "SIMPLE" /\ p.value = PyBool(TRUE)
    ELSE ~p.end /\ p.keyword = "XTENSION" /\ p.value.t = "str"

RHState(e, c, ended, kws, nrec) ==
    [exc |-> e, cause |-> c, ended |-> ended, keywords |-> kws, nrecords |-> nrec]

\* which exception a grammar failure on record n becomes
GrammarError(n) == IF n = 1 THEN "HDUError" ELSE "ValueError"

\* a variant in which every short read is reported as HDUError
ShortReadError_Always(nrec) == "HDUError"

\* which exception a short read becomes after nrec records
ShortReadError(nrec) == IF nrec = 0 THEN "HDUError" ELSE "TypeError"

\* the body of the for loop for record i, after nrec records
read_record(blk, i, prim, kws, nrec) ==
    LET n == nrec + 1
    IN  Bind(parse_keyword(RecordAt(blk, i)), LAMBDA p :
            IF p.exc # "none" THEN RHState(GrammarError(n), "grammar", FALSE, kws, n)
            ELSE IF n = 1 /\ ~FirstRecordOK(prim, p)
            THEN RHState("HDUError", "first", FALSE, kws, n)
            ELSE IF p.end THEN RHState("none", "none", TRUE, kws, n)
            ELSE RHState("none", "none", FALSE,
                         IF p.value.t # "none"
                         THEN Put(kws, DupName(kws, p.keyword), p.value)
                         ELSE kws,
                         n))

\* the for loop over records i..j from state st; it stops at the first
\* raise or break (the range is halved to keep the evaluation shallow)
RECURSIVE read_records(_, _, _, _, _)
read_records(blk, i, j, prim, st0) ==
    Bind(st0, LAMBDA st :
        IF st.exc # "none" \/ st.ended THEN st
        ELSE IF i = j THEN read_record(blk, i, prim, st.keywords, st.nrecords)
        ELSE LET mid == (i + j) \div 2
             IN  read_records(blk, mid + 1, j, prim,
                              read_records(blk, i, mid, prim, st)))

\* one pass of the while loop of read_header on a block read in full
read_header_block(blk, prim, kws, nrec) ==
    IF blk.bin THEN RHState("TypeError", "characters", FALSE, kws, nrec)
    ELSE read_records(blk, 1, RecordsPerBlock, prim,
                      RHState("none", "none", FALSE, kws, nrec))

\* one pass of the while loop when read_block returns None
read_header_short(kws, nrec) == RHState(ShortReadError(nrec), "block", FALSE, kws, nrec)

RHStatus(st) ==
    IF st.exc # "none" THEN "raised" ELSE IF st.ended THEN "returned" ELSE "reading"

-----------------------------------------------------------------------------
(* read_header called on its own.  The content of a block is fixed when    *)
(* the block is first read.                                                *)

KV(kw, body) == Rec(kw, <<"=", " ">> \o body)

\* records that open a header, records that continue it, records that end it
\* (the last one by a grammar failure)
FirstRecs ==
    {KV("SIMPLE", <<"T">>), KV("XTENSION", <<"'", "a", "'">>),
     KV("SIMPLE", <<"F">>), KV("SIMPLE", <<"T", "'">>)}
BodyRecs ==
    {KV("K", <<"1">>), KV("K.1", <<"5">>),
     Rec("COMMENT", <<" ", " ", "a">>), Rec("COMMENT", <<"b">>)}
LastRecs == {Rec("END", <<>>), KV("K", <<"1", " ", "2">>)}

GoodFirst(prim) ==
    IF prim THEN KV("SIMPLE", <<"T">>) ELSE KV("XTENSION", <<"'", "a", "'">>)

\* how the records of a first block end: by padding, by END (possibly after
\* blank records) or by a record that fails the grammar
Endings ==
    {<<>>, <<Blank, Blank, Rec("END", <<>>)>>} \cup {<<l>> : l \in LastRecs}

\* the blocks a read may find: a block with a byte that is not printable, or
\* a block of records followed by blank padding.  The body records of a
\* header (at most MaxRecs) are in its first block; nothing but padding
\* follows a first record that is refused.
HeaderBlocks(first, prim) ==
    {BinaryBlock} \cup
    IF first
    THEN {TextBlock(<<GoodFirst(prim)>> \o m \o t) :
             m \in SeqsUpTo(BodyRecs, MaxRecs), t \in Endings}
         \cup {TextBlock(<<r>>) : r \in (FirstRecs \ {GoodFirst(prim)}) \cup LastRecs}
         \cup {TextBlock(<<>>)}
    ELSE {TextBlock(<<>>)} \cup {TextBlock(<<l>>) : l \in LastRecs}

\* a pass of the while loop in which read_block returns a block
ReadHeaderBlock ==
    /\ rhs = "reading"
    /\ ReadSize(pos) = BlockSize
    /\ LET b == pos \div BlockSize
       IN  \E blk \in HeaderBlocks(nrecords = 0, primary) :
             \E st \in {read_header_block(blk, primary, keywords, nrecords)} :
                 /\ file' = [file EXCEPT ![b] = blk]
                 /\ pos' = pos + BlockSize
                 /\ rhs' = RHStatus(st)
                 /\ keywords' = st.keywords
                 /\ nrecords' = st.nrecords
                 /\ rherr' = st.exc
                 /\ cause' = st.cause
    /\ UNCHANGED <<nblocks, tail, primary, hstart, varsKV, varsT, varsLoad, mm>>

\* a pass of the while loop in which read_block returns None
ReadHeaderShort ==
    /\ rhs = "reading"
    /\ ReadSize(pos) < BlockSize
    /\ LET st == read_header_short(keywords, nrecords)
       IN  /\ pos' = pos + ReadSize(pos)
           /\ rhs' = RHStatus(st)
           /\ rherr' = st.exc
           /\ cause' = st.cause
    /\ UNCHANGED <<nblocks, tail, file, primary, keywords, nrecords, hstart,
                   varsKV, varsT, varsLoad, mm>>

-----------------------------------------------------------------------------
(* fits.py: shape, layout and byte arithmetic of a data unit.  The headers *)
(* read here give integers to the keywords that the arithmetic uses; any   *)
(* other type of value is reported as the TypeError of the arithmetic.     *)

IsNum(v) == v.t \in {"int", "bool"}
Num(v) == IF v.t = "bool" THEN (IF v.b THEN 1 ELSE 0) ELSE v.n
Abs(n) == IF n < 0 THEN -n ELSE n

\* dict.get(k, default)
Get(h, k, default) == IF Has(h, k) THEN h[k] ELSE default

\* math.prod
RECURSIVE Prod(_)
Prod(dims) == IF dims = <<>> THEN 1 ELSE Num(dims[1]) * Prod(Tail(dims))

ShapeRaise(e) == [exc |-> e, none |-> TRUE, dims |-> <<>>]

\* the tuple of NAXIS1..NAXISn, or None when NAXIS is not positive
shape_from_header(h) ==
    IF ~Has(h, "NAXIS") THEN ShapeRaise("KeyError")
    ELSE IF ~IsNum(h["NAXIS"]) THEN ShapeRaise("TypeError")
    ELSE LET naxis == Num(h["NAXIS"])
         IN  IF naxis > 0
             THEN IF \E i \in 1..naxis : ~Has(h, FieldKey("NAXIS", i))
                  THEN ShapeRaise("KeyError")
                  ELSE [exc |-> "none", none |-> FALSE,
                        dims |-> [i \in 1..naxis |-> h[FieldKey("NAXIS", i)]]]
             ELSE [exc |-> "none", none |-> TRUE, dims |-> <<>>]

BitpixKeys == {8, 16, 32, 64, -32, -64}

BITPIX_DTYPE_MAP(b) ==
    CASE b = 8 -> <<"u", "1">>
      [] b = 16 -> <<"i", "2">>
      [] b = 32 -> <<"i", "4">>
      [] b = 64 -> <<"i", "8">>
      [] b = -32 -> <<"f", "4">>
      [] b = -64 -> <<"f", "8">>

\* a layout is a format (image) or a list of fields (table)
DtypeRaise(e) == [exc |-> e, list |-> FALSE, fmt |-> <<>>, fields |-> <<>>]

image_dtype(h) ==
    IF ~Has(h, "BITPIX") THEN DtypeRaise("KeyError")
    ELSE IF ~(h["BITPIX"].t = "int" /\ h["BITPIX"].n \in BitpixKeys)
    THEN DtypeRaise("ValueError")
    ELSE [exc |-> "none", list |-> FALSE,
          fmt |-> BITPIX_DTYPE_MAP(h["BITPIX"].n), fields |-> <<>>]

IMAGE == <<"I", "M", "A", "G", "E">>
BINTABLE == <<"B", "I", "N", "T", "A", "B", "L", "E">>

dtype_from_header(h) ==
    LET x == Get(h, "XTENSION", PyStr(IMAGE))
    IN  IF x.t # "str" THEN DtypeRaise("AttributeError")
        ELSE IF RStrip(x.s) = IMAGE THEN image_dtype(h)
        ELSE IF RStrip(x.s) = BINTABLE
        THEN LET d == bintable_dtype(h)
             IN  IF d.exc # "none" THEN DtypeRaise(d.exc)
                 ELSE [exc |-> "none", list |-> TRUE, fmt |-> <<>>, fields |-> d.dtype]
        ELSE DtypeRaise("ValueError")

\* numpy's item size of a layout
ItemSize(dtype) == IF dtype.list THEN RowSize(dtype.fields) ELSE ElementSize(dtype.fmt)

\* skip_data: whether it seeks, and by how many bytes
SkipRaise(e) == [exc |-> e, seek |-> FALSE, nskip |-> 0]

skip_data(h) ==
    LET shape == shape_from_header(h)
    IN  IF shape.exc # "none" THEN SkipRaise(shape.exc)
        ELSE IF shape.none THEN [exc |-> "none", seek |-> FALSE, nskip |-> 0]
        ELSE IF ~Has(h, "BITPIX") THEN SkipRaise("KeyError")
        ELSE LET bitpix == h["BITPIX"]
                 pcount == Get(h, "PCOUNT", PyInt(0))
             IN  IF ~(IsNum(bitpix) /\ IsNum(pcount)
                      /\ \A i \in 1..Len(shape.dims) : IsNum(shape.dims[i]))
                 THEN SkipRaise("TypeError")
                 ELSE LET ndata == (Abs(Num(bitpix)) \div 8)
                                       * (Num(pcount) + Prod(shape.dims))
                          nskip == ndata + ((BlockSize - (ndata % BlockSize)) % BlockSize)
                      IN  [exc |-> "none", seek |-> TRUE, nskip |-> nskip]

-----------------------------------------------------------------------------
(* fits.py: hdu.                                                           *)

ALLOCATIONGRANULARITY == 4096

LayoutRaise(e) ==
    [exc |-> e, none |-> TRUE, nbytes |-> 0, dims |-> <<>>, itemsize |-> 0,
     array_offset |-> 0, buffer_offset |-> 0, buffer_length |-> 0]

\* hdu up to the try statement, with fp.tell() = p
hdu_layout(p, h) ==
    LET shape == shape_from_header(h)
        dtype == dtype_from_header(h)
    IN  IF shape.exc # "none" THEN LayoutRaise(shape.exc)
        ELSE IF dtype.exc # "none" THEN LayoutRaise(dtype.exc)
        ELSE IF shape.none THEN LayoutRaise("none")
        ELSE IF ~Has(h, "BITPIX") THEN LayoutRaise("KeyError")
        ELSE LET bitpix == h["BITPIX"]
                 pcount == Get(h, "PCOUNT", PyInt(0))
                 gcount == Get(h, "GCOUNT", PyInt(1))
             IN  IF ~(IsNum(bitpix) /\ IsNum(pcount) /\ IsNum(gcount)
                      /\ \A i \in 1..Len(shape.dims) : IsNum(shape.dims[i]))
                 THEN LayoutRaise("TypeError")
                 ELSE LET nbytes == (Abs(Num(bitpix)) \div 8) * Num(gcount)
                                        * (Num(pcount) + Prod(shape.dims))
                          dims == IF dtype.list THEN Tail(shape.dims) ELSE shape.dims
                          array_offset == p % ALLOCATIONGRANULARITY
                      IN  [exc |-> "none", none |-> FALSE, nbytes |-> nbytes,
                           dims |-> [i \in 1..Len(dims) |-> Num(dims[i])],
                           itemsize |-> ItemSize(dtype),
                           array_offset |-> array_offset,
                           buffer_offset |-> p - array_offset,
                           buffer_length |-> array_offset + nbytes]

\* mmap.mmap(fileno, length, offset=offset, access=ACCESS_READ) on a file of
\* size bytes: the exception it raises
mmap_error(length, offset, size) ==
    IF length < 0 THEN "OverflowError"
    ELSE IF length = 0
    THEN IF size = 0 \/ offset >= size THEN "ValueError" ELSE "none"
    ELSE IF offset > size \/ size - offset < length THEN "ValueError" ELSE "none"

\* len() of the mapping: a length of 0 maps the file from offset to its end
mmap_len(length, offset, size) == IF length = 0 THEN size - offset ELSE length

RECURSIVE IntProd(_)
IntProd(dims) == IF dims = <<>> THEN 1 ELSE dims[1] * IntProd(Tail(dims))

\* np.ndarray.__new__(np.ndarray, shape, dtype, buffer=buffer, offset=offset):
\* the exception it raises on a buffer of buflen bytes.  The shape (-1,) takes
\* its length from the buffer.
ndarray_error(dims, itemsize, buflen, offset) ==
    IF dims = <<-1>>
    THEN IF buflen - offset < 0 THEN "ValueError" ELSE "none"
    ELSE IF buflen < offset + itemsize * IntProd(dims) THEN "TypeError"
    ELSE IF \E i \in 1..Len(dims) : dims[i] < 0 THEN "ValueError"
    ELSE "none"

\* a variant of the finally clause that closes every open mapping
finally_closes_Always(buffer_open, data_built) == buffer_open

\* the finally clause: whether it closes the mapping
finally_closes(buffer_open, data_built) == buffer_open /\ ~data_built

\* the HduArray: its header, and the bytes of the file it is mapped on
Unit(h, mapped, nbytes) == [header |-> h, mapped |-> mapped, nbytes |-> nbytes]

HduRaise(e) == [exc |-> e, unit |-> Unit(EmptyDict, FALSE, 0)]

\* a whole call of hdu on a file of size bytes with fp.tell() = p
hdu(p, h, size) ==
    Bind(hdu_layout(p, h), LAMBDA lay :
        IF lay.exc # "none" THEN HduRaise(lay.exc)
        ELSE IF lay.none THEN [exc |-> "none", unit |-> Unit(h, FALSE, 0)]
        ELSE LET me == mmap_error(lay.buffer_length, lay.buffer_offset, size)
                 ne == ndarray_error(lay.dims, lay.itemsize,
                                     mmap_len(lay.buffer_length, lay.buffer_offset, size),
                                     lay.array_offset)
             IN  IF me # "none" THEN HduRaise(me)
                 ELSE IF ne # "none" THEN HduRaise(ne)
                 ELSE [exc |-> "none", unit |-> Unit(h, TRUE, lay.nbytes)])

-----------------------------------------------------------------------------
(* The headers load and hdu are run on: one block each, BITPIX = 8.        *)

Quoted(text) == <<"'">> \o text \o <<"'">>
IntRec(kw, n) == KV(kw, IntText(n))
EndRec == Rec("END", <<>>)

AxisRecs ==
    {<<IntRec("NAXIS", 0)>>,
     <<IntRec("NAXIS", 1), IntRec("NAXIS1", 0)>>,
     <<IntRec("NAXIS", 1), IntRec("NAXIS1", BlockSize)>>}
PcountRecs == {<<>>, <<IntRec("PCOUNT", -BlockSize)>>}
GcountRecs == {<<>>, <<IntRec("GCOUNT", 0)>>, <<IntRec("GCOUNT", 2)>>}
ExtendRecs == {<<>>, <<KV("EXTEND", <<"T">>)>>, <<KV("EXTEND", <<"F">>)>>}

SimpleRec == KV("SIMPLE", <<"T">>)
ImageRec == KV("XTENSION", Quoted(IMAGE))

PrimaryHeaders ==
    {TextBlock(<<SimpleRec, IntRec("BITPIX", 8)>> \o a \o p \o g \o e \o <<EndRec>>) :
        a \in AxisRecs, p \in PcountRecs, g \in GcountRecs, e \in ExtendRecs}

\* image extensions, an empty table of one two-byte field, and an extension
\* of a kind that is not supported
ExtensionHeaders ==
    {TextBlock(<<ImageRec, IntRec("BITPIX", 8)>> \o a \o p \o g \o <<EndRec>>) :
        a \in AxisRecs, p \in PcountRecs, g \in GcountRecs}
    \cup {TextBlock(<<KV("XTENSION", Quoted(BINTABLE)), IntRec("BITPIX", 8),
                      IntRec("NAXIS", 2), IntRec("NAXIS1", 2), IntRec("NAXIS2", 0),
                      IntRec("TFIELDS", 1), KV("TFORM1", Quoted(<<"2", "B">>)),
                      EndRec>>),
          TextBlock(<<KV("XTENSION", Quoted(<<"a">>)), IntRec("BITPIX", 8),
                      IntRec("NAXIS", 0), EndRec>>)}

\* the blocks a read of load may find where nothing was read before
LoadBlocks(first, prim) ==
    {BinaryBlock, TextBlock(<<>>)} \cup
    IF first
    THEN (IF prim THEN PrimaryHeaders \cup {TextBlock(<<ImageRec, EndRec>>)}
                  ELSE ExtensionHeaders \cup {TextBlock(<<SimpleRec, EndRec>>)})
         \cup {TextBlock(<<GoodFirst(prim)>> \o t) : t \in {<<>>} \cup {<<l>> : l \in LastRecs}}
    ELSE {TextBlock(<<EndRec>>)}

\* what a read at block b finds
BlockAt(b, first, prim) ==
    IF file[b].known THEN {file[b]} ELSE LoadBlocks(first, prim)

-----------------------------------------------------------------------------
(* fits.py: load.  pc is "read" during a read_header call, "hdu" when the  *)
(* call has returned, "skip" at the top of the loop body, and "done" or    *)
(* "raised" once load is left.                                             *)

\* class HDUError(TypeError)
IsInstance(e, cls) == e = cls \/ (e = "HDUError" /\ cls = "TypeError")

\* the try statement around the first read_header call: the exception that
\* leaves load
load_primary_except(e) == IF IsInstance(e, "HDUError") THEN "TypeError" ELSE e

\* a variant of the handler of the loop that catches TypeError
load_loop_except_TypeError(e) == IF IsInstance(e, "TypeError") THEN "break" ELSE "raise"

\* the try statement around the read_header call of the loop
load_loop_except(e) == IF IsInstance(e, "HDUError") THEN "break" ELSE "raise"

\* load after a pass of read_header's loop that left read_header in state st
load_after_read(prim, st, hdr) ==
    IF st.exc = "none"
    THEN IF st.ended THEN [pc |-> "hdu", exc |-> "none", header |-> st.keywords]
         ELSE [pc |-> "read", exc |-> "none", header |-> hdr]
    ELSE IF prim
    THEN [pc |-> "raised", exc |-> load_primary_except(st.exc), header |-> hdr]
    ELSE IF load_loop_except(st.exc) = "break"
    THEN [pc |-> "done", exc |-> "none", header |-> hdr]
    ELSE [pc |-> "raised", exc |-> st.exc, header |-> hdr]

\* a pass of read_header's loop, called by load, that reads a block
LoadReadBlock ==
    /\ pc = "read"
    /\ ReadSize(pos) = BlockSize
    /\ LET b == pos \div BlockSize
       IN  \E blk \in BlockAt(b, nrecords = 0, primary) :
             \E st \in {read_header_block(blk, primary, keywords, nrecords)} :
             \E ld \in {load_after_read(primary, st, header)} :
                 /\ file' = [file EXCEPT ![b] = blk]
                 /\ pos' = pos + BlockSize
                 /\ rhs' = RHStatus(st)
                 /\ keywords' = st.keywords
                 /\ nrecords' = st.nrecords
                 /\ rherr' = st.exc
                 /\ cause' = st.cause
                 /\ pc' = ld.pc
                 /\ exc' = ld.exc
                 /\ header' = ld.header
    /\ UNCHANGED <<nblocks, tail, primary, hstart, hdus, skipped, varsKV, varsT, mm>>

\* a pass of read_header's loop, called by load, that finds no whole block
LoadReadShort ==
    /\ pc = "read"
    /\ ReadSize(pos) < BlockSize
    /\ LET st == read_header_short(keywords, nrecords)
           ld == load_after_read(primary, st, header)
       IN  /\ pos' = pos + ReadSize(pos)
           /\ rhs' = RHStatus(st)
           /\ rherr' = st.exc
           /\ cause' = st.cause
           /\ pc' = ld.pc
           /\ exc' = ld.exc
    /\ UNCHANGED <<nblocks, tail, file, primary, keywords, nrecords, hstart,
                   header, hdus, skipped, varsKV, varsT, mm>>

\* hdus.append(hdu(fp, header)) for the primary header, and the test of EXTEND
LoadPrimaryUnit ==
    /\ pc = "hdu"
    /\ primary
    /\ \E u \in {hdu(pos, header, FileSize)} :
           IF u.exc # "none"
           THEN pc' = "raised" /\ exc' = u.exc /\ hdus' = hdus
           ELSE /\ hdus' = Append(hdus, u.unit)
                /\ IF ~Has(header, "EXTEND")
                   THEN pc' = "raised" /\ exc' = "KeyError"
                   ELSE IF header["EXTEND"] = PyBool(TRUE)
                   THEN pc' = "skip" /\ exc' = exc
                   ELSE pc' = "done" /\ exc' = exc
    /\ UNCHANGED <<varsFile, varsRH, header, skipped, varsKV, varsT, mm>>

\* hdus.append(hdu(fp, header)) in the loop
LoadExtensionUnit ==
    /\ pc = "hdu"
    /\ ~primary
    /\ Len(hdus) < MaxUnits
    /\ \E u \in {hdu(pos, header, FileSize)} :
           IF u.exc # "none"
           THEN pc' = "raised" /\ exc' = u.exc /\ hdus' = hdus
           ELSE pc' = "skip" /\ exc' = exc /\ hdus' = Append(hdus, u.unit)
    /\ UNCHANGED <<varsFile, varsRH, header, skipped, varsKV, varsT, mm>>

\* skip_data(fp, header), then the call of read_header(fp, buffer, False);
\* a seek in front of the start of the file raises OSError
LoadSkip ==
    /\ pc = "skip"
    /\ \E s \in {skip_data(header)} :
           IF s.exc # "none" \/ (s.seek /\ pos + s.nskip < 0)
           THEN /\ pc' = "raised"
                /\ exc' = IF s.exc # "none" THEN s.exc ELSE "OSError"
                /\ UNCHANGED <<pos, varsRH, skipped>>
           ELSE /\ pos' = pos + s.nskip
                /\ skipped' = s.nskip
                /\ hstart' = pos'
                /\ rhs' = "reading"
                /\ primary' = FALSE
                /\ keywords' = EmptyDict
                /\ nrecords' = 0
                /\ rherr' = "none"
                /\ cause' = "none"
                /\ pc' = "read"
                /\ exc' = exc
    /\ UNCHANGED <<nblocks, tail, file, header, hdus, varsKV, varsT, mm>>

-----------------------------------------------------------------------------
(* hdu step by step, and the life of the array it returns.  mm.opened and  *)
(* mm.closes count the mappings opened and the calls of buffer.close;      *)
(* mm.hook says that the finalizer of data is registered and has not run;  *)
(* mm.refs counts the references that keep data alive (the returned        *)
(* HduArray, whose base is data, and the views taken of it).               *)

MMState(stage, opened, closes, hook, refs, err) ==
    [stage |-> stage, opened |-> opened, closes |-> closes, hook |-> hook,
     refs |-> refs, err |-> err]

\* shape, dtype and the offsets; data = np.empty(0, dtype) when shape is None
HduLayout ==
    /\ mm.stage = "called"
    /\ \E lay \in {hdu_layout(pos, header)} :
           mm' = IF lay.exc # "none" THEN MMState("raised", 0, 0, FALSE, 0, lay.exc)
                 ELSE IF lay.none THEN MMState("returned", 0, 0, FALSE, 1, "none")
                 ELSE MMState("mmap", 0, 0, FALSE, 0, "none")
    /\ UNCHANGED <<varsKV, varsT, varsFile, varsRH, varsLoad>>

\* buffer = mmap.mmap(...); when it raises, the finally clause finds no buffer
HduMmap ==
    /\ mm.stage = "mmap"
    /\ \E lay \in {hdu_layout(pos, header)} :
       \E me \in {mmap_error(lay.buffer_length, lay.buffer_offset, FileSize)} :
           mm' = IF me # "none"
                 THEN MMState("raised", 0,
                              IF finally_closes(FALSE, FALSE) THEN 1 ELSE 0,
                              FALSE, 0, me)
                 ELSE MMState("ndarray", 1, 0, FALSE, 0, "none")
    /\ UNCHANGED <<varsKV, varsT, varsFile, varsRH, varsLoad>>

\* data = np.ndarray.__new__(...) and the finally clause
HduNdarray ==
    /\ mm.stage = "ndarray"
    /\ \E lay \in {hdu_layout(pos, header)} :
       \E ne \in {ndarray_error(lay.dims, lay.itemsize,
                                 mmap_len(lay.buffer_length, lay.buffer_offset, FileSize),
                                 lay.array_offset)} :
       \E closes \in {IF finally_closes(TRUE, ne = "none") THEN 1 ELSE 0} :
           mm' = IF ne # "none"
                 THEN MMState("raised", 1, closes, FALSE, 0, ne)
                 ELSE MMState("finalize", 1, closes, FALSE, 0, "none")
    /\ UNCHANGED <<varsKV, varsT, varsFile, varsRH, varsLoad>>

\* finalize(data, buffer.close); return HduArray(data, header)
HduReturn ==
    /\ mm.stage = "finalize"
    /\ mm' = [mm EXCEPT !.stage = "returned", !.hook = TRUE, !.refs = 1]
    /\ UNCHANGED <<varsKV, varsT, varsFile, varsRH, varsLoad>>

\* the caller takes another reference to the array, or a view of it
TakeRef ==
    /\ mm.stage = "returned"
    /\ mm.refs >= 1
    /\ mm.refs < MaxRefs
    /\ mm' = [mm EXCEPT !.refs = @ + 1]
    /\ UNCHANGED <<varsKV, varsT, varsFile, varsRH, varsLoad>>

\* the caller drops a reference
DropRef ==
    /\ mm.stage = "returned"
    /\ mm.refs >= 1
    /\ mm' = [mm EXCEPT !.refs = @ - 1]
    /\ UNCHANGED <<varsKV, varsT, varsFile, varsRH, varsLoad>>

\* data is collected: its finalizer, if registered, calls buffer.close once
Collect ==
    /\ mm.stage = "returned"
    /\ mm.refs = 0
    /\ mm.hook
    /\ mm' = [mm EXCEPT !.hook = FALSE, !.closes = @ + 1]
    /\ UNCHANGED <<varsKV, varsT, varsFile, varsRH, varsLoad>>

-----------------------------------------------------------------------------
(* parse_keyword_value called on its own, on every clause over KVChars.    *)

KVChars == {"'", "/", " ", "a", "T", "1"}

KVUncalled == [exc |-> "uncalled", value |-> PyNone, comment |-> PyNone]

CallParseKeywordValue ==
    /\ kvout.exc = "uncalled"
    /\ kvout' = parse_keyword_value(expr)
    /\ UNCHANGED <<expr, varsT, varsFile, varsRH, varsLoad, mm>>

-----------------------------------------------------------------------------
(* Each part of the reader is exercised by a specification of its own; the *)
(* variables of the other parts stay at these values.                      *)

KVIdle == expr = <<>> /\ kvout = KVUncalled
TIdle == theader = EmptyDict /\ tdtype = TUncalled
FileIdle == nblocks = 0 /\ tail = 0 /\ file = <<>> /\ pos = 0
RHIdle ==
    /\ rhs = "idle" /\ primary = TRUE /\ keywords = EmptyDict /\ nrecords = 0
    /\ rherr = "none" /\ cause = "none" /\ hstart = 0
LoadIdle == pc = "idle" /\ header = EmptyDict /\ hdus = <<>> /\ exc = "none" /\ skipped = 0
MMIdle == mm = MMState("idle", 0, 0, FALSE, 0, "none")

InitKV ==
    /\ expr \in SeqsUpTo(KVChars, MaxLen)
    /\ kvout = KVUncalled
    /\ TIdle /\ FileIdle /\ RHIdle /\ LoadIdle /\ MMIdle

NextKV == CallParseKeywordValue

SpecKV == InitKV /\ [][NextKV]_vars

InitT ==
    /\ \E n \in 1..MaxFields : \E f \in [1..n -> TformTexts], tt \in SUBSET {1} :
           theader = TableHeader(n, f, tt)
    /\ tdtype = TUncalled
    /\ KVIdle /\ FileIdle /\ RHIdle /\ LoadIdle /\ MMIdle

NextT == CallBintableDtype \/ BintableField \/ BintableReturn

SpecT == InitT /\ [][NextT]_vars

InitH ==
    /\ nblocks \in 0..MaxHeaderBlocks
    /\ tail \in {0, 1}
    /\ file = [b \in 0..(nblocks - 1) |-> Unread]
    /\ pos = 0
    /\ rhs = "reading" /\ primary \in BOOLEAN /\ keywords = EmptyDict /\ nrecords = 0
    /\ rherr = "none" /\ cause = "none" /\ hstart = 0
    /\ KVIdle /\ TIdle /\ LoadIdle /\ MMIdle

NextH == ReadHeaderBlock \/ ReadHeaderShort

SpecH == InitH /\ [][NextH]_vars

\* load called on a file of whole blocks, at its first read_header call
InitLoad ==
    /\ nblocks \in 0..MaxBlocks
    /\ tail = 0
    /\ file = [b \in 0..(nblocks - 1) |-> Unread]
    /\ pos = 0
    /\ rhs = "reading" /\ primary = TRUE /\ keywords = EmptyDict /\ nrecords = 0
    /\ rherr = "none" /\ cause = "none" /\ hstart = 0
    /\ pc = "read" /\ header = EmptyDict /\ hdus = <<>> /\ exc = "none" /\ skipped = 0
    /\ KVIdle /\ TIdle /\ MMIdle

NextLoad ==
    \/ LoadReadBlock
    \/ LoadReadShort
    \/ LoadPrimaryUnit
    \/ LoadExtensionUnit
    \/ LoadSkip

SpecLoad == InitLoad /\ [][NextLoad]_vars

\* the header that read_header returns on a one-block header
HeaderOf(blk, prim) == read_header_block(blk, prim, EmptyDict, 0).keywords

\* hdu called after a header of one block was read from a file of whole
\* blocks
InitHdu ==
    /\ nblocks \in 1..MaxBlocks
    /\ tail = 0
    /\ file = [b \in 0..(nblocks - 1) |-> Unread]
    /\ pos = BlockSize
    /\ \E prim \in BOOLEAN :
         \E blk \in IF prim THEN PrimaryHeaders ELSE ExtensionHeaders :
            header = HeaderOf(blk, prim)
    /\ mm = MMState("called", 0, 0, FALSE, 0, "none")
    /\ pc = "idle" /\ hdus = <<>> /\ exc = "none" /\ skipped = 0
    /\ KVIdle /\ TIdle /\ RHIdle

NextHdu ==
    \/ HduLayout
    \/ HduMmap
    \/ HduNdarray
    \/ HduReturn
    \/ TakeRef
    \/ DropRef
    \/ Collect

SpecHdu == InitHdu /\ [][NextHdu]_vars

-----------------------------------------------------------------------------
(* Claims about read_header (SpecH).                                       *)

\* the records of the blocks read so far, padding included
BlockRecords(blk) == [i \in 1..RecordsPerBlock |-> RecordAt(blk, i)]

RECURSIVE FileRecords(_)
FileRecords(b) ==
    IF b >= nblocks THEN <<>>
    ELSE IF ~file[b].known THEN <<>>
    ELSE BlockRecords(file[b]) \o FileRecords(b + 1)

\* the records of the header: those in front of the first END
HeaderRecords ==
    LET all == FileRecords(0)
        ends == {i \in 1..Len(all) : all[i].kw = "END"}
    IN  IF ends = {} THEN all ELSE SubSeq(all, 1, Min(ends) - 1)

Commentary == {"COMMENT", "HISTORY", ""}

\* the records of keyword k in record order
IsKeyword(k, r) == r.kw = k
RecordsOf(recs, k) == LET Test(r) == IsKeyword(k, r) IN SelectSeq(recs, Test)

\* the non-null values of the value records of keyword k in record order
ValuesOf(recs, k) ==
    LET Test(r) == r.kw = k /\ parse_keyword(r).value.t # "none"
        occ == SelectSeq(recs, Test)
    IN  [n \in 1..Len(occ) |-> parse_keyword(occ[n]).value]

\* C4: when a non-commentary keyword K occurs m times with a non-null value,
\* the mapping read_header returns holds K, K.1, ..., K.(m-1) with the values
\* of these occurrences in record order, and no value of the header is lost.
C4_DuplicateKeys ==
    rhs = "returned" =>
        LET recs == HeaderRecords
        IN  \A K \in {recs[i].kw : i \in 1..Len(recs)} \ Commentary :
                LET vals == ValuesOf(recs, K)
                IN  \A n \in 0..(Len(vals) - 1) :
                        /\ DupKey(K, n) \in DOMAIN keywords
                        /\ keywords[DupKey(K, n)] = vals[n + 1]

\* the names the duplicate rule synthesizes for the commentary keywords
CommentarySuffixed(n) == {DupKey(c, i) : c \in Commentary, i \in 1..n}

\* C5 as stated: the mapping read_header returns holds no key COMMENT.n,
\* HISTORY.n or .n, whatever the number of commentary records.
C5_NoCommentarySuffix ==
    rhs = "returned" =>
        DOMAIN keywords \cap CommentarySuffixed(Cardinality(DOMAIN keywords)) = {}

\* C5 amended: commentary records go through the duplicate rule.  A header
\* with m COMMENT (HISTORY) records yields exactly the keys COMMENT,
\* COMMENT.1, ..., COMMENT.(m-1), holding the texts of these records in record
\* order; a header with blank-keyword records yields the key '', and the key
\* '.1' when it has two or more.
C5_CommentarySuffixed ==
    rhs = "returned" =>
        LET recs == HeaderRecords
            blanks == RecordsOf(recs, "")
        IN  /\ \A c \in {"COMMENT", "HISTORY"} :
                  LET occ == RecordsOf(recs, c)
                  IN  \A n \in 0..Len(recs) :
                          IF n < Len(occ)
                          THEN /\ DupKey(c, n) \in DOMAIN keywords
                               /\ keywords[DupKey(c, n)] = PyStr(RStrip(occ[n + 1].text))
                          ELSE DupKey(c, n) \notin DOMAIN keywords
            /\ Len(blanks) >= 1 => "" \in DOMAIN keywords
            /\ Len(blanks) >= 2 => ".1" \in DOMAIN keywords

\* a returned header with two COMMENT records and two blank records
C5_Witness ==
    /\ rhs = "returned"
    /\ Len(RecordsOf(HeaderRecords, "COMMENT")) >= 2
    /\ Len(RecordsOf(HeaderRecords, "")) >= 2
    /\ {"COMMENT.1", ".1"} \subseteq DOMAIN keywords

\* C6: read_header raises HDUError exactly for a short read before any
\* record, a grammar failure on record 1 and a refused first record; a
\* failure after the first record was accepted and a byte that is not
\* printable are reported by another exception.
C6_HDUErrorAtBoundary ==
    rhs = "raised" =>
        /\ rherr = "HDUError" <=>
               \/ cause = "block" /\ nrecords = 0
               \/ cause = "grammar" /\ nrecords = 1
               \/ cause = "first" /\ nrecords = 1
        /\ (nrecords >= 2 \/ cause = "characters") => rherr \in {"TypeError", "ValueError"}

\* a short read of a continuation block, reported as TypeError
C6_Witness ==
    /\ rhs = "raised"
    /\ cause = "block"
    /\ nrecords >= RecordsPerBlock
    /\ rherr = "TypeError"

-----------------------------------------------------------------------------
(* Claims about load and skip_data (SpecLoad).                             *)

\* n rounded up to the next multiple of the block size
PaddedSize(n) == n + ((BlockSize - (n % BlockSize)) % BlockSize)

\* the unit that load appended last
LastUnit == hdus[Len(hdus)]

\* C1: for a header with NAXIS > 0, skip_data advances the read position by
\* the byte length hdu computes for this header, rounded up to a multiple of
\* 2880.
C1_SkipMatchesMappedBytes ==
    (pc = "read" /\ ~primary /\ LastUnit.header["NAXIS"].n > 0) =>
        skipped = PaddedSize(LastUnit.nbytes)

\* C2: in the loop of load, each read_header call starts at a position that
\* is strictly greater than the position at which the previous call of the
\* loop started.
C2_LoopAdvances ==
    [][(pc = "skip" /\ ~primary /\ pc' = "read") => pos' > hstart]_vars

\* C3: when the primary header was read and its unit built, and the header
\* does not map EXTEND to the boolean true, load returns exactly this unit
\* without raising and without reading further.
C3_NoExtendOneUnit ==
    (/\ pc \in {"done", "raised"}
     /\ Len(hdus) >= 1
     /\ ~(Has(hdus[1].header, "EXTEND") /\ hdus[1].header["EXTEND"] = PyBool(TRUE)))
    => (pc = "done" /\ exc = "none" /\ Len(hdus) = 1 /\ primary /\ rhs = "returned")

\* C7: when a read_header call of the loop raises HDUError, load returns the
\* units gathered so far; when it raises anything else, that exception
\* leaves load.  Reading a header never changes the list of units.
C7_LoopHandler ==
    /\ [](( ~primary /\ rhs = "raised") =>
            IF rherr = "HDUError"
            THEN pc = "done" /\ exc = "none" /\ Len(hdus) >= 1
            ELSE pc = "raised" /\ exc = rherr /\ exc \in {"TypeError", "ValueError"})
    /\ [][pc = "read" => hdus' = hdus]_vars

\* load has returned two units after an HDUError in the loop
C7_Witness ==
    /\ pc = "done"
    /\ ~primary
    /\ rhs = "raised"
    /\ rherr = "HDUError"
    /\ Len(hdus) >= 2

-----------------------------------------------------------------------------
(* Claims about the mapping that hdu opens (SpecHdu).                      *)

\* C10: a mapping that hdu has opened is closed at most once; it is closed
\* in hdu, with no finalizer registered, exactly when the array could not be
\* built; after hdu has returned, it is open as long as a reference to the
\* array is alive, and then either its finalizer is pending or it was closed
\* once.  Nothing is closed when no mapping was opened.
C10_MappingReleasedOnce ==
    /\ mm.closes <= mm.opened
    /\ mm.opened <= 1
    /\ mm.opened = 0 => ~mm.hook
    /\ (mm.stage = "raised" /\ mm.opened = 1) => (mm.closes = 1 /\ ~mm.hook)
    /\ mm.refs >= 1 => mm.closes = 0
    /\ (mm.stage = "returned" /\ mm.opened = 1) => (mm.hook <=> mm.closes = 0)

\* the mapping of a returned array was closed after its last reference went
C10_Witness ==
    /\ mm.stage = "returned"
    /\ mm.opened = 1
    /\ mm.refs = 0
    /\ mm.closes = 1
    /\ ~mm.hook

-----------------------------------------------------------------------------
(* Claims about parse_keyword_value (SpecKV).                              *)

\* the closing quote of the quoted-string token whose text starts at j: the
\* first quote from j on that is not doubled; 0 when the token never closes
RECURSIVE TokenEnd(_, _)
TokenEnd(e, j) ==
    IF j > Len(e) THEN 0
    ELSE IF e[j] # "'" THEN TokenEnd(e, j + 1)
    ELSE IF j < Len(e) /\ e[j + 1] = "'" THEN TokenEnd(e, j + 2)
    ELSE j

\* C8: a clause made of spaces, one quoted-string token with every embedded
\* quote doubled, spaces and a '/'-comment parses to the decoded string and
\* the stripped comment, whatever printable characters the comment holds; a
\* token followed by anything but spaces or a '/'-comment is rejected.
C8_StringThenComment ==
    kvout.exc # "uncalled" =>
        LET i == SkipSpaces(expr, 1)
            q == IF i <= Len(expr) /\ expr[i] = "'" THEN TokenEnd(expr, i + 1) ELSE 0
            k == SkipSpaces(expr, q + 1)
        IN  (q > 0 /\ k <= Len(expr)) =>
                IF expr[k] = "/"
                THEN kvout = KVResult(PyStr(ReplaceQuotes(SubSeq(expr, i + 1, q - 1))),
                                      PyStr(Strip(From(expr, k + 1))))
                ELSE kvout.exc = "ValueError"

-----------------------------------------------------------------------------
(* Claims about bintable_dtype (SpecT).                                    *)

\* C9: a field whose TFORM is a repeat count r >= 1 followed by X occupies
\* ceil(r/8) bytes.
C9_BitArrayWidth ==
    tdtype.exc = "none" =>
        \A i \in 1..Len(tdtype.dtype) :
            LET t == theader[FieldKey("TFORM", i)].s
                r == DigitsToNat(TformCount(t))
            IN  (TformCount(t) # <<>> /\ TformValue(t) = "X" /\ r >= 1) =>
                    FormatSize(tdtype.dtype[i].fmt) = (r + 7) \div 8

=============================================================================
